---- MODULE Spec2Model ----
(***************************************************************************)
(* Clarifi client: the useWebSocket hook (hooks/useWebSocket.jsx), the     *)
(* zustand store it writes to (store/appStore.js) and the monitoring       *)
(* backend that publishes events to the hook's sockets.  The backend is    *)
(* not part of the client sources; it is modelled from the engine          *)
(* specification (sections 3, 4.1, 4.4 - 4.6).                             *)
(***************************************************************************)
EXTENDS Integers, Sequences, FiniteSets, TLC

\* ---------------------------------------------------------------- bounds
MaxSockets == 2      \* socket objects and pending timers alive at once
MaxClock == 3        \* checks the backend runs (its clock ticks once a check)
MaxInbox == 2        \* events (and frames without one) in flight to a socket
MaxOther == 1        \* frames the hook ignores in flight to one socket
NumMonitors == 2     \* monitors the owner has
MaxItems == 52       \* notifications the store has received on its own
RemovableIds == 2    \* ids the owner deletes one by one
MaxRuns == 1         \* Check All runs going on at once
MaxChecks == 2       \* check requests of the Monitors page in flight at once
MaxLoads == 2        \* loadMonitors (loadStats) requests pending at once
MaxCalls == 2        \* calls of ApiService methods in progress at once
MaxMessages == 2     \* messages the component passes to sendMessage
MaxListed == 2       \* entries of a store list when entries are removed

SockIds == 1..MaxSockets
TimerIds == 1..MaxSockets
MonitorIds == 1..NumMonitors
Times == 1..MaxClock

\* ------------------------------------------------------- program constants
NullRef == 0         \* useRef(null), and a null timestamp / value
DeadRef == MaxSockets + 1   \* a reference to an object that is finished:
                            \* a socket whose close event has fired, or the
                            \* id of a timer that has fired or was cleared
NoValue == "null"

VARIABLES
  store,                 \* the zustand store (appStore.js)
  wsRef,                 \* wsRef.current
  reconnectTimeoutRef,   \* reconnectTimeoutRef.current
  isConnected,           \* useState(false)
  connectionStatus,      \* useState('disconnected')
  mounted,               \* the component that uses the hook is mounted
  socks,                 \* the WebSocket objects the hook has created
  timers,                \* the browser's pending setTimeout ids
  srv,                   \* the backend: clock, monitors, notification records
  disconnectCalled,      \* history: disconnect() has run
  missed,                \* history: notifications published to no open socket
  auth,                  \* Clerk: loaded, signed in
  monPage,               \* the Monitors page: its list, its requests in flight
  srvActive,             \* the backend's is_active of each monitor
  notifPage,             \* the Notifications page: filter, list shown
  formData,              \* the Create Monitor form (Monitors.jsx useState)
  api,                   \* ApiService: the calls of request in progress
  outbox,                \* the messages the component gave to sendMessage
  srvDeleted,            \* the backend: ids of the notifications deleted
  dash,                  \* the Dashboard: loadDashboardData calls at their await
  header,                \* the Header: unreadCount, its fetches at their await
  stopped                \* history: disconnect() has run and connect has
                         \* not been called by the component since

vars == <<store, wsRef, reconnectTimeoutRef, isConnected, connectionStatus,
          mounted, socks, timers, srv, disconnectCalled, missed>>

hookVars == <<wsRef, reconnectTimeoutRef, isConnected, connectionStatus,
              mounted, socks, timers, disconnectCalled>>

\* the pages, the form, Clerk's state and ApiService's calls
pageVars == <<auth, monPage, srvActive, notifPage, formData, api>>

\* what the hook's calls and handlers other than sendMessage leave alone
sideVars == <<outbox, srvDeleted, dash, header>>

widgetVars == <<sideVars, stopped>>

allVars == <<vars, pageVars, widgetVars>>

\* ------------------------------------------------------------- the store
InitPagination == [page |-> 1, per_page |-> 20, total |-> 0, has_more |-> FALSE]

InitSlice == [items |-> <<>>, loading |-> FALSE, error |-> "null",
              pagination |-> InitPagination]

InitStore ==
  [ui |-> [sidebarOpen |-> FALSE, currentUrl |-> "", loading |-> FALSE,
           error |-> "null", toast |-> "null"],
   summaries |-> InitSlice,
   monitors |-> InitSlice,
   notifications |-> InitSlice,
   currentSummary |-> "null",
   stats |-> [summaries |-> "null", monitors |-> "null",
              notifications |-> "null", loading |-> FALSE, error |-> "null"]]

\* { ...target, ...updates }: updates is a record whose fields override
MergeUpdates(monitor, updates) ==
  [k \in (DOMAIN monitor) \cup (DOMAIN updates) |->
     IF k \in DOMAIN updates THEN updates[k] ELSE monitor[k]]

showToast(st, toast) ==
  [st EXCEPT !.ui = MergeUpdates(st.ui, [toast |-> toast])]

setMonitors(st, monitors) ==
  [st EXCEPT !.monitors =
     MergeUpdates(st.monitors,
                  [items |-> monitors, loading |-> FALSE, error |-> "null"])]

\* updateMonitor that forgets to compare the id
updateMonitorAny(st, id, updates) ==
  LET upd(monitor) == MergeUpdates(monitor, updates)
  IN [st EXCEPT !.monitors.items =
        [i \in 1..Len(st.monitors.items) |-> upd(st.monitors.items[i])]]

updateMonitor(st, id, updates) ==
  LET upd(monitor) == IF monitor.id = id THEN MergeUpdates(monitor, updates)
                                         ELSE monitor
  IN [st EXCEPT !.monitors.items =
        [i \in 1..Len(st.monitors.items) |-> upd(st.monitors.items[i])]]

setNotifications(st, notifications) ==
  [st EXCEPT !.notifications =
     MergeUpdates(st.notifications,
                  [items |-> notifications, loading |-> FALSE, error |-> "null"])]

\* addNotification that appends: [...items, notification]
addNotificationLast(st, notification) ==
  [st EXCEPT !.notifications.items = Append(st.notifications.items, notification),
             !.notifications.pagination.total =
                 st.notifications.pagination.total + 1]

addNotification(st, notification) ==
  [st EXCEPT !.notifications.items = <<notification>> \o st.notifications.items,
             !.notifications.pagination.total =
                 st.notifications.pagination.total + 1]

\* markNotificationRead that forgets to compare the id
markNotificationReadAny(st, id, now) ==
  LET upd(n) == [n EXCEPT !.is_read = TRUE, !.read_at = now]
  IN [st EXCEPT !.notifications.items =
        [i \in 1..Len(st.notifications.items) |-> upd(st.notifications.items[i])]]

markNotificationRead(st, id, now) ==
  LET upd(n) == IF n.id = id THEN [n EXCEPT !.is_read = TRUE, !.read_at = now]
                             ELSE n
  IN [st EXCEPT !.notifications.items =
        [i \in 1..Len(st.notifications.items) |-> upd(st.notifications.items[i])]]

markAllNotificationsRead(st, now) ==
  LET upd(n) == [n EXCEPT !.is_read = TRUE, !.read_at = now]
  IN [st EXCEPT !.notifications.items =
        [i \in 1..Len(st.notifications.items) |-> upd(st.notifications.items[i])]]

\* the store's own dispatcher; the hook does not use it
handleWebSocketMessage(st, message) ==
  CASE message.type = "notification" ->
         showToast(addNotification(st, message.data), "New Notification")
    [] message.type = "monitor_update" ->
         \* updateMonitor(data.id, data): the payload has monitor_id and no
         \* id, so data.id is undefined and no monitor matches
         showToast(st, "Monitor Update")
    [] OTHER -> st

\* -------------------------------------------------- the hook's dispatcher
\* JSONParse that reads text that is not JSON as a notification
JSONParseLenient(frame) ==
  IF frame.wellFormed
    THEN [ok |-> TRUE, message |-> [type |-> frame.type, data |-> frame.data]]
    ELSE [ok |-> TRUE, message |-> [type |-> "notification", data |-> frame.data]]

\* JSON.parse(event.data): throws on a frame that is not JSON
JSONParse(frame) ==
  IF frame.wellFormed
    THEN [ok |-> TRUE, message |-> [type |-> frame.type, data |-> frame.data]]
    ELSE [ok |-> FALSE, message |-> [type |-> "", data |-> NoValue]]

\* MonitorUpdates that sets last_changed on every update
MonitorUpdatesAlways(monitorUpdate) ==
  [current_value |-> monitorUpdate.current_value,
   last_checked |-> monitorUpdate.last_checked,
   last_changed |-> monitorUpdate.last_checked]

\* the updates object built for a monitor_update
MonitorUpdates(monitorUpdate) ==
  IF monitorUpdate.has_changed
    THEN [current_value |-> monitorUpdate.current_value,
          last_checked |-> monitorUpdate.last_checked,
          last_changed |-> monitorUpdate.last_checked]
    ELSE [current_value |-> monitorUpdate.current_value,
          last_checked |-> monitorUpdate.last_checked]

\* handleMessage that hands the message to the store's dispatcher
handleMessageViaStore(st, message) == handleWebSocketMessage(st, message)

\* the toasts shown after addNotification are react-hot-toast calls, not store
\* writes; an exception they raise is caught by onmessage after the store write
handleMessage(st, message) ==
  CASE message.type = "notification" -> addNotification(st, message.data)
    [] message.type = "monitor_update" ->
         updateMonitor(st, message.data.monitor_id, MonitorUpdates(message.data))
    [] message.type = "system_status" -> st
    [] OTHER -> st

\* ws.onmessage: parse, dispatch, swallow any exception
onmessage(st, frame) ==
  LET parsed == JSONParse(frame)
  IN IF parsed.ok THEN handleMessage(st, parsed.message) ELSE st

\* ------------------------------------------------------------ the backend
\* (engine specification, sections 3, 4.1, 4.4, 4.5, 4.6)
NotificationEnabled == [m \in MonitorIds |-> m = 1]

\* the last monitor is deactivated: the scheduler never checks it
IsActive == [m \in MonitorIds |-> m < NumMonitors]

InitSrv ==
  [clock |-> 0,
   monitors |-> [m \in MonitorIds |->
                   [id |-> m, current_value |-> NoValue,
                    last_checked |-> NullRef, last_changed |-> NullRef]],
   notifs |-> <<>>]

\* Change Detector: the first observation is a baseline, not a change
Detect(monitor, observed) ==
  monitor.current_value # NoValue /\ monitor.current_value # observed

\* the Notification record the dispatcher creates for a change at time t
NewNotification(m, t, n) ==
  [id |-> n, source |-> m, created_at |-> t, is_read |-> FALSE,
   read_at |-> NullRef]

NotificationFrame(n) ==
  [wellFormed |-> TRUE, type |-> "notification", data |-> n]

MonitorUpdateFrame(m, value, t, changed) ==
  [wellFormed |-> TRUE, type |-> "monitor_update",
   data |-> [monitor_id |-> m, current_value |-> value, last_checked |-> t,
             has_changed |-> changed]]

\* the frames one check publishes, in publish order
CheckFrames(m, observed, t) ==
  LET monitor == srv.monitors[m]
      changed == Detect(monitor, observed)
      upd == MonitorUpdateFrame(m, observed, t, changed)
  IN IF changed /\ NotificationEnabled[m]
       THEN <<NotificationFrame(NewNotification(m, t, Len(srv.notifs) + 1)), upd>>
       ELSE <<upd>>

\* Broadcast Layer publish: every registered (open) connection gets the
\* frames; with none registered they are dropped
Publish(sk, frames) ==
  [s \in SockIds |->
     IF sk[s].readyState = "open"
       THEN [sk[s] EXCEPT !.inbox = sk[s].inbox \o frames]
       ELSE sk[s]]

OpenSocks == {s \in SockIds : socks[s].readyState = "open"}

\* the value a check observes: the first one is "a", a different one flips it
Observe(monitor, differs) ==
  IF monitor.current_value = NoValue THEN "a"
  ELSE IF ~differs THEN monitor.current_value
  ELSE IF monitor.current_value = "a" THEN "b" ELSE "a"

\* the backend's events among the frames: each has one monitor_update frame
EventsIn(inbox) ==
  Cardinality({i \in 1..Len(inbox) :
                 inbox[i].wellFormed /\ inbox[i].type = "monitor_update"})

\* one check of monitor m; differs: the page shows another value than before
SrvCheck(m, differs) ==
  LET t == srv.clock + 1
      monitor == srv.monitors[m]
      observed == Observe(monitor, differs)
      changed == Detect(monitor, observed)
      frames == CheckFrames(m, observed, t)
  IN /\ IsActive[m]
     /\ srv.clock < MaxClock
     /\ \A s \in OpenSocks : EventsIn(socks[s].inbox) < MaxInbox
     /\ srv' = [srv EXCEPT
                  !.clock = t,
                  !.monitors[m] =
                     [monitor EXCEPT
                        !.current_value = observed,
                        !.last_checked = t,
                        !.last_changed = IF changed THEN t ELSE @],
                  !.notifs =
                     IF changed /\ NotificationEnabled[m]
                       THEN <<NewNotification(m, t, Len(srv.notifs) + 1)>> \o @
                       ELSE @]
     /\ socks' = Publish(socks, frames)
     /\ missed' = IF OpenSocks = {} /\ changed /\ NotificationEnabled[m]
                  THEN missed \cup {Len(srv.notifs) + 1} ELSE missed
     /\ UNCHANGED <<pageVars, widgetVars, store, wsRef, reconnectTimeoutRef, isConnected,
                    connectionStatus, mounted, timers, disconnectCalled>>

\* a frame the hook does not act on: system_status, an unknown type, or text
\* that is not JSON
OtherFrames ==
  {[wellFormed |-> TRUE, type |-> "system_status", data |-> NoValue],
   [wellFormed |-> TRUE, type |-> "ping", data |-> NoValue],
   [wellFormed |-> FALSE, type |-> "", data |-> NoValue]}

SrvSendOther(s, frame) ==
  /\ socks[s].readyState = "open"
  /\ Len(socks[s].inbox) < MaxInbox
  /\ Cardinality({i \in 1..Len(socks[s].inbox) :
                    socks[s].inbox[i] \in OtherFrames}) < MaxOther
  /\ socks' = [socks EXCEPT ![s].inbox = Append(@, frame)]
  /\ UNCHANGED <<pageVars, widgetVars, store, wsRef, reconnectTimeoutRef, isConnected,
                 connectionStatus, mounted, timers, srv, disconnectCalled,
                 missed>>

\* --------------------------------------------------------------- the hook
\* ignored is history: the socket has handled a frame the hook does not act on
FreeSock == [readyState |-> "free", inbox |-> <<>>, ignored |-> FALSE]

Live(sk) == {s \in SockIds : sk[s].readyState # "free"}

MinOf(S) == CHOOSE x \in S : \A y \in S : x <= y

\* setIsConnected / setConnectionStatus: React drops a state update of a
\* component that is no longer mounted
SetState(cur, new) == IF mounted THEN new ELSE cur

\* new WebSocket(url) and the four handler assignments
NewSocket(sk) ==
  [sk EXCEPT ![MinOf(SockIds \ Live(sk))] =
     [readyState |-> "connecting", inbox |-> <<>>, ignored |-> FALSE]]

\* ws.close(): a connecting or open socket starts closing, its close event is
\* still to come and it delivers no further message
CloseSocket(sk, ref) ==
  IF ref \in SockIds /\ sk[ref].readyState \in {"connecting", "open"}
    THEN [sk EXCEPT ![ref].readyState = "closing", ![ref].inbox = <<>>]
    ELSE sk

\* clearTimeout(reconnectTimeoutRef.current) when the ref is set
ClearTimer(tm, ref) == IF ref # NullRef THEN tm \ {ref} ELSE tm

\* connect(), starting from sockets sk; throws: new WebSocket(url) threw
connect(sk, throws) ==
  /\ connectionStatus' = SetState(connectionStatus,
                                  IF throws THEN "disconnected" ELSE "connecting")
  /\ socks' = IF throws THEN sk ELSE NewSocket(sk)
  /\ wsRef' = IF throws THEN wsRef ELSE MinOf(SockIds \ Live(sk))

\* connect() as the value of reconnect, called by the component
Reconnect(throws) ==
  /\ mounted
  /\ Cardinality(Live(socks)) + Cardinality(timers) < MaxSockets
  /\ connect(socks, throws)
  /\ stopped' = FALSE
  /\ UNCHANGED <<pageVars, sideVars, store, reconnectTimeoutRef, isConnected, mounted, timers,
                 srv, disconnectCalled, missed>>

\* OnOpen that catches up on open by loading the backend's notifications
OnOpenCatchUp(s) ==
  /\ socks[s].readyState = "connecting"
  /\ socks' = [socks EXCEPT ![s].readyState = "open"]
  /\ isConnected' = SetState(isConnected, TRUE)
  /\ connectionStatus' = SetState(connectionStatus, "connected")
  /\ timers' = ClearTimer(timers, reconnectTimeoutRef)
  /\ reconnectTimeoutRef' = NullRef
  /\ store' = setNotifications(store, srv.notifs)
  /\ UNCHANGED <<pageVars, widgetVars, wsRef, mounted, srv, disconnectCalled, missed>>

OnOpen(s) ==
  /\ socks[s].readyState = "connecting"
  /\ socks' = [socks EXCEPT ![s].readyState = "open"]
  /\ isConnected' = SetState(isConnected, TRUE)
  /\ connectionStatus' = SetState(connectionStatus, "connected")
  /\ timers' = ClearTimer(timers, reconnectTimeoutRef)
  /\ reconnectTimeoutRef' = NullRef
  /\ UNCHANGED <<pageVars, widgetVars, store, wsRef, mounted, srv, disconnectCalled, missed>>

\* the frame is one handleMessage has a case with a store action for
Handled(frame) ==
  frame.wellFormed /\ frame.type \in {"notification", "monitor_update"}

OnMessage(s) ==
  /\ socks[s].readyState = "open"
  /\ socks[s].inbox # <<>>
  /\ store' = onmessage(store, Head(socks[s].inbox))
  /\ socks' = [socks EXCEPT ![s].inbox = Tail(@),
                            ![s].ignored = @ \/ ~Handled(Head(socks[s].inbox))]
  /\ UNCHANGED <<pageVars, widgetVars, wsRef, reconnectTimeoutRef, isConnected, connectionStatus,
                 mounted, timers, srv, disconnectCalled, missed>>

\* OnClose that schedules the reconnect only for the socket wsRef holds
OnCloseCurrentOnly(s) ==
  /\ socks[s].readyState \in {"open", "closing"}
  /\ socks' = [socks EXCEPT ![s] = FreeSock]
  /\ wsRef' = IF wsRef = s THEN DeadRef ELSE wsRef
  /\ isConnected' = SetState(isConnected, FALSE)
  /\ connectionStatus' = SetState(connectionStatus, "disconnected")
  /\ timers' = IF wsRef = s THEN timers \cup {MinOf(TimerIds \ timers)}
                            ELSE timers
  /\ reconnectTimeoutRef' = IF wsRef = s THEN MinOf(TimerIds \ timers)
                                         ELSE reconnectTimeoutRef
  /\ UNCHANGED <<pageVars, widgetVars, store, mounted, srv, disconnectCalled, missed>>

\* the close event of socket s: the server or the network closed an open
\* socket, or a closing socket finished closing
OnClose(s) ==
  /\ socks[s].readyState \in {"open", "closing"}
  /\ socks' = [socks EXCEPT ![s] = FreeSock]
  /\ wsRef' = IF wsRef = s THEN DeadRef ELSE wsRef
  /\ isConnected' = SetState(isConnected, FALSE)
  /\ connectionStatus' = SetState(connectionStatus, "disconnected")
  /\ timers' = timers \cup {MinOf(TimerIds \ timers)}
  /\ reconnectTimeoutRef' = MinOf(TimerIds \ timers)
  /\ UNCHANGED <<pageVars, widgetVars, store, mounted, srv, disconnectCalled, missed>>

\* the error event: the connection failed, the close event follows
OnError(s) ==
  /\ socks[s].readyState \in {"connecting", "open"}
  /\ socks' = [socks EXCEPT ![s].readyState = "closing", ![s].inbox = <<>>]
  /\ isConnected' = SetState(isConnected, FALSE)
  /\ connectionStatus' = SetState(connectionStatus, "disconnected")
  /\ UNCHANGED <<pageVars, widgetVars, store, wsRef, reconnectTimeoutRef, mounted, timers, srv,
                 disconnectCalled, missed>>

\* the setTimeout callback set by onclose
TimerFire(t, throws) ==
  /\ t \in timers
  /\ timers' = timers \ {t}
  /\ reconnectTimeoutRef' =
        IF reconnectTimeoutRef = t THEN DeadRef ELSE reconnectTimeoutRef
  /\ connect(socks, throws)
  /\ UNCHANGED <<pageVars, widgetVars, store, isConnected, mounted, srv, disconnectCalled, missed>>

\* disconnect() up to its two state updates
disconnect ==
  /\ timers' = ClearTimer(timers, reconnectTimeoutRef)
  /\ reconnectTimeoutRef' = NullRef
  /\ isConnected' = FALSE
  /\ disconnectCalled' = TRUE

Disconnect ==
  /\ mounted
  /\ disconnect
  /\ socks' = CloseSocket(socks, wsRef)
  /\ wsRef' = NullRef
  /\ connectionStatus' = "disconnected"
  /\ stopped' = TRUE
  /\ UNCHANGED <<pageVars, sideVars, store, mounted, srv, missed>>

\* the effect's cleanup when the component unmounts
Unmount ==
  /\ mounted
  /\ disconnect
  /\ socks' = CloseSocket(socks, wsRef)
  /\ wsRef' = NullRef
  /\ connectionStatus' = "disconnected"
  /\ mounted' = FALSE
  /\ stopped' = TRUE
  /\ UNCHANGED <<pageVars, sideVars, store, srv, missed>>

\* the url prop changes: the effect's cleanup, then the effect again
UrlChange(throws) ==
  /\ mounted
  /\ Cardinality(Live(socks))
       + Cardinality(ClearTimer(timers, reconnectTimeoutRef)) < MaxSockets
  /\ disconnect
  /\ socks' = IF throws THEN CloseSocket(socks, wsRef)
                        ELSE NewSocket(CloseSocket(socks, wsRef))
  /\ wsRef' = IF throws THEN NullRef ELSE MinOf(SockIds \ Live(socks))
  /\ connectionStatus' = IF throws THEN "disconnected" ELSE "connecting"
  /\ stopped' = FALSE
  /\ UNCHANGED <<pageVars, sideVars, store, mounted, srv, missed>>

\* ------------------------------------------------------------ sendMessage
\* readyState of the object a ref holds: a socket whose close event has
\* fired is CLOSED
ReadyState(ref, sk) == IF ref \in SockIds THEN sk[ref].readyState ELSE "closed"

\* WebSocket.send: throws InvalidStateError while CONNECTING, transmits when
\* OPEN, discards the data when CLOSING or CLOSED
WebSocketSend(readyState) ==
  CASE readyState = "connecting" -> "threw"
    [] readyState = "open" -> "sent"
    [] OTHER -> "discarded"

\* sendMessage that tests the ref alone, not the socket's readyState
sendMessageUnchecked(ref, sk) ==
  IF ref # NullRef THEN WebSocketSend(ReadyState(ref, sk)) ELSE "warned"

\* sendMessage(message): what becomes of the message
sendMessage(ref, sk) ==
  IF ref # NullRef /\ ReadyState(ref, sk) = "open"
    THEN WebSocketSend(ReadyState(ref, sk))
    ELSE "warned"

InitOutbox == [n |-> 0, sent |-> {}, threw |-> {}, notOpen |-> {}]

\* the component calls sendMessage with its next message; notOpen is
\* history: the messages passed while the socket was missing or not OPEN
SendMessage ==
  LET message == outbox.n + 1
      outcome == sendMessage(wsRef, socks)
      open == wsRef # NullRef /\ ReadyState(wsRef, socks) = "open"
  IN /\ mounted
     /\ outbox.n < MaxMessages
     /\ outbox' = [n |-> message,
                   sent |-> IF outcome = "sent" THEN outbox.sent \cup {message}
                                                ELSE outbox.sent,
                   threw |-> IF outcome = "threw" THEN outbox.threw \cup {message}
                                                  ELSE outbox.threw,
                   notOpen |-> IF open THEN outbox.notOpen
                                       ELSE outbox.notOpen \cup {message}]
     /\ UNCHANGED <<vars, pageVars, srvDeleted, dash, header, stopped>>

\* ----------------------------------------------- store actions of the pages
RecentLimit == 5

Take(s, n) == SubSeq(s, 1, IF Len(s) < n THEN Len(s) ELSE n)

\* Dashboard.loadDashboardData, the notifications part: getRecentNotifications
\* resolves to the list, or to [] when its request failed
LoadNotifications(ok) ==
  /\ store' = setNotifications(store,
                 IF ok THEN Take(srv.notifs, RecentLimit) ELSE <<>>)
  /\ UNCHANGED <<pageVars, widgetVars, hookVars, srv, missed>>

\* setMonitors with the owner's monitors as the backend lists them
LoadMonitors ==
  /\ store' = setMonitors(store, [i \in MonitorIds |-> srv.monitors[i]])
  /\ UNCHANGED <<pageVars, widgetVars, hookVars, srv, missed>>

\* new Date(): the wall clock, which is past the backend's last check time
Now == srv.clock + 1

MarkNotificationRead(id) ==
  /\ store' = markNotificationRead(store, id, Now)
  /\ UNCHANGED <<pageVars, widgetVars, hookVars, srv, missed>>

MarkAllNotificationsRead ==
  /\ store' = markAllNotificationsRead(store, Now)
  /\ UNCHANGED <<pageVars, widgetVars, hookVars, srv, missed>>

\* ------------------------------------- the store's persistence and reset
PersistLimit == 50          \* notifications.items.slice(0, 50)
SummaryPersistLimit == 10   \* summaries.items.slice(0, 10)

Max(a, b) == IF a > b THEN a ELSE b

removeNotification(st, id) ==
  [st EXCEPT !.notifications.items =
                SelectSeq(st.notifications.items, LAMBDA n : n.id # id),
             !.notifications.pagination.total =
                Max(0, st.notifications.pagination.total - 1)]

addSummary(st, summary) ==
  [st EXCEPT !.summaries.items = <<summary>> \o st.summaries.items,
             !.summaries.pagination.total = st.summaries.pagination.total + 1]

removeSummary(st, id) ==
  [st EXCEPT !.summaries.items =
                SelectSeq(st.summaries.items, LAMBDA summary : summary.id # id),
             !.summaries.pagination.total =
                Max(0, st.summaries.pagination.total - 1)]

addMonitor(st, monitor) ==
  [st EXCEPT !.monitors.items = <<monitor>> \o st.monitors.items,
             !.monitors.pagination.total = st.monitors.pagination.total + 1]

removeMonitor(st, id) ==
  [st EXCEPT !.monitors.items =
                SelectSeq(st.monitors.items, LAMBDA monitor : monitor.id # id),
             !.monitors.pagination.total =
                Max(0, st.monitors.pagination.total - 1)]

resetStore(st) == InitStore

\* persist's partialize: the part of the state written to localStorage
partialize(state) ==
  [ui |-> [sidebarOpen |-> state.ui.sidebarOpen,
           currentUrl |-> state.ui.currentUrl],
   summaries |-> [items |-> Take(state.summaries.items, SummaryPersistLimit),
                  pagination |-> state.summaries.pagination],
   monitors |-> [items |-> state.monitors.items,
                 pagination |-> state.monitors.pagination],
   notifications |-> [items |-> Take(state.notifications.items, PersistLimit),
                      pagination |-> state.notifications.pagination],
   stats |-> state.stats]

\* the keys of an item in the order JSON.stringify writes them
NotificationKeys == <<"id", "source", "created_at", "is_read", "read_at">>

MonitorKeys ==
  <<"id", "name", "url", "monitor_type", "css_selector", "item_name",
    "check_interval", "is_active", "current_value", "last_checked",
    "last_changed">>

\* JSONStringify that leaves out a text field whose value is null
JSONStringifyNoNulls(o, keys) ==
  LET text == {"css_selector", "item_name", "current_value"}
      own == SelectSeq(keys, LAMBDA k :
                 k \in DOMAIN o /\ ~(k \in text /\ o[k] = NoValue))
  IN [i \in 1..Len(own) |-> <<own[i], o[own[i]]>>]

\* JSON.stringify of an object: its own keys with their values, as text
JSONStringify(o, keys) ==
  LET own == SelectSeq(keys, LAMBDA k : k \in DOMAIN o)
  IN [i \in 1..Len(own) |-> <<own[i], o[own[i]]>>]

\* JSON.parse of that text
JSONParseObject(text) ==
  [k \in {text[i][1] : i \in 1..Len(text)} |->
     text[CHOOSE i \in 1..Len(text) : text[i][1] = k][2]]

\* what persist writes to localStorage after a set()
Serialize(state) ==
  LET p == partialize(state)
      items(list, keys) == [i \in 1..Len(list) |-> JSONStringify(list[i], keys)]
  IN [p EXCEPT !.monitors.items = items(@, MonitorKeys),
               !.notifications.items = items(@, NotificationKeys)]

Deserialize(stored) ==
  LET items(list) == [i \in 1..Len(list) |-> JSONParseObject(list[i])]
  IN [stored EXCEPT !.monitors.items = items(@),
                    !.notifications.items = items(@)]

\* persist's rehydration on page load: the stored part is merged over the
\* initial state, key by key ({ ...currentState, ...persistedState })
rehydrate(stored) == MergeUpdates(InitStore, Deserialize(stored))

\* -------------------------------------------- the store driven on its own
NotificationIds(st) ==
  {st.notifications.items[i].id : i \in 1..Len(st.notifications.items)}

\* the id the backend gives its next notification: the list is newest first
NextId(st) ==
  IF st.notifications.items = <<>> THEN 1
  ELSE st.notifications.items[1].id + 1

\* the frames a socket delivers to the store: a new notification, an update
\* of a monitor, a frame the hook ignores
StoreFrames(st) ==
  {NotificationFrame(NewNotification(1, NextId(st), NextId(st))),
   MonitorUpdateFrame(1, "a", 1, FALSE),
   [wellFormed |-> TRUE, type |-> "system_status", data |-> NoValue]}

StoreReceive(frame) ==
  /\ NextId(store) <= MaxItems
  /\ store.notifications.pagination.total < MaxItems
  /\ store' = onmessage(store, frame)
  /\ UNCHANGED <<pageVars, widgetVars, hookVars, srv, missed>>

RemoveNotification(id) ==
  /\ id \in NotificationIds(store)
  /\ store' = removeNotification(store, id)
  /\ UNCHANGED <<pageVars, widgetVars, hookVars, srv, missed>>

ResetStore ==
  /\ store' = resetStore(store)
  /\ UNCHANGED <<pageVars, widgetVars, hookVars, srv, missed>>

\* the page is reloaded: the store starts from what persist stored last
Rehydrate ==
  /\ store' = rehydrate(Serialize(store))
  /\ UNCHANGED <<pageVars, widgetVars, hookVars, srv, missed>>

\* ------------------------------------------------------- AuthGuard (Clerk)
\* Clerk's <SignedIn>: its children when Clerk has a session
SignedIn(children, a) == IF a.loaded /\ a.session THEN children ELSE {}

\* Clerk's <SignedOut>: its children when Clerk has loaded without a session
SignedOut(children, a) == IF a.loaded /\ ~a.session THEN children ELSE {}

\* App's children of AuthGuard
AppChildren == {"Header", "Routes", "Toast"}

\* AuthGuard that renders the application beside the sign-in form
AuthGuardOpen(children, a) ==
  IF ~a.loaded THEN {"Loading"}
  ELSE children \cup SignedOut({"SimpleAuth"}, a)

\* what AuthGuard renders
AuthGuard(children, a) ==
  IF ~a.loaded THEN {"Loading"}
  ELSE SignedIn(children, a) \cup SignedOut({"SimpleAuth"}, a)

\* --------------------------------------------------------- the Monitors page
\* a check request in flight: run is 0 for Check Now, else the Check All run
CheckReqs == [id : MonitorIds, run : 0..MaxRuns]

NoChecks == [r \in CheckReqs |-> 0]

\* failed is history: the requests of the run that have failed so far
IdleRun == [active |-> <<>>, pos |-> 0, failed |-> 0]

\* the page before it is rendered
\* a loadMonitors call at its await: the backend has not served it yet;
\* last is history: no loadMonitors call has started after this one
Unserved == [served |-> FALSE, monitors |-> <<>>, last |-> TRUE]

\* newest is history: the response of the most recently started
\* loadMonitors call, once it has arrived
NotArrived == [arrived |-> FALSE, monitors |-> <<>>]

\* calls: the loadMonitors calls at their await, in the order they started
UnmountedPage ==
  [mounted |-> FALSE, monitors |-> <<>>, inflight |-> NoChecks,
   runs |-> [r \in 1..MaxRuns |-> IdleRun], loads |-> 0, statsLoads |-> 0,
   calls |-> <<>>, newest |-> NotArrived]

\* the page once rendered: useState's initial values, and the mount effect
\* has called loadMonitors(), loadMonitorTypes() and loadStats()
MountedPage ==
  [UnmountedPage EXCEPT !.mounted = TRUE, !.loads = 1, !.statsLoads = 1,
                        !.calls = <<Unserved>>]

\* the page after AuthGuard has rendered for Clerk state a: a page that was
\* not there is mounted, a page that is no longer rendered is unmounted and
\* its requests are followed no further
RenderPage(pg, a) ==
  IF "Routes" \in AuthGuard(AppChildren, a)
    THEN IF pg.mounted THEN pg ELSE MountedPage
    ELSE UnmountedPage

\* check requests in flight: all of them, and those for monitor m
InFlight(pg) ==
  Cardinality({q \in CheckReqs \X (1..MaxChecks) : q[2] <= pg.inflight[q[1]]})

InFlightFor(pg, m) ==
  Cardinality({q \in CheckReqs \X (1..MaxChecks) :
                 q[1].id = m /\ q[2] <= pg.inflight[q[1]]})

\* apiService.checkMonitor(id) is called
SendCheck(pg, m, r) ==
  [pg EXCEPT !.inflight[[id |-> m, run |-> r]] = @ + 1]

\* loadMonitors() / loadStats() is called: one more request pending
loadMonitors(pg) ==
  [pg EXCEPT !.loads = @ + 1,
             !.calls = Append([i \in 1..Len(@) |-> [@[i] EXCEPT !.last = FALSE]],
                              Unserved),
             !.newest = NotArrived]

loadStats(pg) == [pg EXCEPT !.statsLoads = @ + 1]

\* the backend's list of the owner's monitors (engine specification, 3)
ServerMonitors == [m \in MonitorIds |-> [id |-> m, is_active |-> srvActive[m]]]

\* monitors.filter(m => m.is_active), as the ids in list order
ActiveMonitors(list) ==
  LET act == SelectSeq(list, LAMBDA m : m.is_active)
  IN [i \in 1..Len(act) |-> act[i].id]

\* Clerk finishes loading, with or without a session
ClerkLoaded(session) ==
  /\ ~auth.loaded
  /\ auth' = [loaded |-> TRUE, session |-> session]
  /\ monPage' = RenderPage(monPage, auth')
  /\ UNCHANGED <<vars, widgetVars, srvActive, notifPage, formData, api>>

SignIn ==
  /\ auth.loaded /\ ~auth.session
  /\ auth' = [auth EXCEPT !.session = TRUE]
  /\ monPage' = RenderPage(monPage, auth')
  /\ UNCHANGED <<vars, widgetVars, srvActive, notifPage, formData, api>>

SignOut ==
  /\ auth.loaded /\ auth.session
  /\ auth' = [auth EXCEPT !.session = FALSE]
  /\ monPage' = RenderPage(monPage, auth')
  /\ UNCHANGED <<vars, widgetVars, srvActive, notifPage, formData, api>>

\* s without its i-th element
RemoveAt(s, i) == SubSeq(s, 1, i - 1) \o SubSeq(s, i + 1, Len(s))

\* the backend serves the GET /monitors of the i-th pending call: its
\* response is the list as it is now
GetMonitorsServed(i) ==
  /\ monPage.mounted
  /\ i \in 1..Len(monPage.calls) /\ ~monPage.calls[i].served
  /\ monPage' = [monPage EXCEPT
                   !.calls[i].served = TRUE,
                   !.calls[i].monitors = ServerMonitors]
  /\ UNCHANGED <<vars, widgetVars, auth, srvActive, notifPage, formData, api>>

\* loadMonitors after its await, for the i-th pending call: setMonitors with
\* the response, or the catch when the request failed
loadMonitorsDone(pg, i, ok) ==
  [pg EXCEPT
     !.loads = @ - 1,
     !.calls = RemoveAt(@, i),
     !.monitors = IF ok THEN pg.calls[i].monitors ELSE @,
     !.newest = IF ok /\ pg.calls[i].last
                  THEN [arrived |-> TRUE, monitors |-> pg.calls[i].monitors]
                  ELSE @]

\* the response of the i-th pending loadMonitors call arrives, or (~ok) the
\* request fails
LoadMonitorsDone(i, ok) ==
  /\ monPage.mounted
  /\ i \in 1..Len(monPage.calls)
  /\ ok => monPage.calls[i].served
  /\ monPage' = loadMonitorsDone(monPage, i, ok)
  /\ UNCHANGED <<vars, widgetVars, auth, srvActive, notifPage, formData, api>>

LoadStatsDone ==
  /\ monPage.mounted /\ monPage.statsLoads > 0
  /\ monPage' = [monPage EXCEPT !.statsLoads = @ - 1]
  /\ UNCHANGED <<vars, widgetVars, auth, srvActive, notifPage, formData, api>>

\* the Refresh button
Refresh ==
  /\ monPage.mounted /\ monPage.loads < MaxLoads
  /\ monPage' = loadMonitors(monPage)
  /\ UNCHANGED <<vars, widgetVars, auth, srvActive, notifPage, formData, api>>

\* handleToggleMonitor, from the click to the end of its request; ok: the
\* backend toggled the monitor
handleToggleMonitor(m, ok) ==
  /\ monPage.mounted
  /\ m \in {monPage.monitors[i].id : i \in 1..Len(monPage.monitors)}
  /\ monPage.loads < MaxLoads /\ monPage.statsLoads < MaxLoads
  /\ srvActive' = IF ok THEN [srvActive EXCEPT ![m] = ~@] ELSE srvActive
  /\ monPage' = IF ok THEN loadStats(loadMonitors(monPage)) ELSE monPage
  /\ UNCHANGED <<vars, widgetVars, auth, notifPage, formData, api>>

\* handleCheckMonitor up to its await: the Check Now button of monitor m
handleCheckMonitor(m) ==
  /\ monPage.mounted
  /\ m \in {monPage.monitors[i].id : i \in 1..Len(monPage.monitors)}
  /\ InFlight(monPage) < MaxChecks
  /\ monPage' = SendCheck(monPage, m, 0)
  /\ UNCHANGED <<vars, widgetVars, auth, srvActive, notifPage, formData, api>>

\* handleCheckMonitor after its await: the request ended
CheckMonitorDone(m, ok) ==
  /\ monPage.inflight[[id |-> m, run |-> 0]] > 0
  /\ ok => monPage.loads < MaxLoads
  /\ monPage' =
       LET done == [monPage EXCEPT !.inflight[[id |-> m, run |-> 0]] = @ - 1]
       IN IF ok THEN loadMonitors(done) ELSE done
  /\ UNCHANGED <<vars, widgetVars, auth, srvActive, notifPage, formData, api>>

\* handleCheckAllMonitors up to its first await: the Check All button;
\* confirmed: the owner's answer to window.confirm
handleCheckAllMonitors(r, confirmed) ==
  LET activeMonitors == ActiveMonitors(monPage.monitors)
  IN /\ monPage.mounted
     /\ monPage.runs[r].pos = 0
     /\ \A q \in 1..MaxRuns : q < r => monPage.runs[q].pos # 0
     /\ InFlight(monPage) < MaxChecks
     /\ monPage' =
          IF activeMonitors = <<>> \/ ~confirmed THEN monPage
          ELSE SendCheck([monPage EXCEPT !.runs[r] =
                            [active |-> activeMonitors, pos |-> 1, failed |-> 0]],
                         activeMonitors[1], r)
     /\ UNCHANGED <<vars, widgetVars, auth, srvActive, notifPage, formData, api>>

\* a Check All loop that gives up at the first failed request
CheckAllStepStop(pg, r, ok) ==
  LET run == pg.runs[r]
      done == [pg EXCEPT !.inflight[[id |-> run.active[run.pos], run |-> r]] = @ - 1]
  IN IF ok /\ run.pos < Len(run.active)
       THEN SendCheck([done EXCEPT !.runs[r].pos = @ + 1],
                      run.active[run.pos + 1], r)
       ELSE IF ok
         THEN loadStats(loadMonitors([done EXCEPT !.runs[r] = IdleRun]))
         ELSE [done EXCEPT !.runs[r] = IdleRun]

\* the Check All loop after an await: the request ended, well or not (the
\* inner catch only logs); the next monitor is checked, or the run ends with
\* loadMonitors() and loadStats()
CheckAllStep(pg, r, ok) ==
  LET run == pg.runs[r]
      done == [pg EXCEPT !.inflight[[id |-> run.active[run.pos], run |-> r]] = @ - 1]
  IN IF run.pos < Len(run.active)
       THEN SendCheck([done EXCEPT !.runs[r].pos = @ + 1,
                                   !.runs[r].failed = IF ok THEN @ ELSE @ + 1],
                      run.active[run.pos + 1], r)
       ELSE loadStats(loadMonitors([done EXCEPT !.runs[r] = IdleRun]))

CheckAllDone(r, ok) ==
  /\ monPage.runs[r].pos > 0
  /\ monPage.runs[r].pos = Len(monPage.runs[r].active)
       => monPage.loads < MaxLoads /\ monPage.statsLoads < MaxLoads
  /\ monPage' = CheckAllStep(monPage, r, ok)
  /\ UNCHANGED <<vars, widgetVars, auth, srvActive, notifPage, formData, api>>

\* ---------------------------------------------------------------- ApiService
\* the methods of the service that are followed here
ApiMethods ==
  {"getMonitors", "checkMonitor", "createMonitor", "getRecentNotifications",
   "healthCheck"}

\* the tokens Clerk may hand out
Tokens == {"tok1", "tok2"}

\* the outcomes of fetch: an HTTP status, or 0 when fetch rejects
Responses == {0, 200, 204, 403, 500}

\* response.ok
ResponseOk(status) == 200 <= status /\ status <= 299

NoHeaders == [k \in {} |-> ""]

IdleCall ==
  [state |-> "idle", method |-> "", token |-> NoValue, available |-> FALSE,
   headers |-> NoHeaders, fetches |-> 0, response |-> 0, error |-> 0]

\* getClerkToken(): the session's token `issued`, or null when Clerk has no
\* session or getToken() throws
getClerkToken(a, issued, throws) ==
  IF a.loaded /\ a.session /\ ~throws THEN issued ELSE NoValue

\* request's headers that never carry the token
RequestHeadersBare(token) == [ContentType |-> "application/json"]

\* request's config.headers: Content-Type, then authHeader; no method of the
\* service passes options.headers
RequestHeaders(token) ==
  MergeUpdates([ContentType |-> "application/json"],
               IF token # NoValue
                 THEN [Authorization |-> <<"Bearer", token>>]
                 ELSE NoHeaders)

\* a method of the service is called: healthCheck calls fetch at once with
\* no init object, every other method calls request, which awaits the token
ApiCall(c, method) ==
  /\ api[c].state = "idle"
  /\ api' = [api EXCEPT ![c] =
       IF method = "healthCheck"
         THEN [IdleCall EXCEPT !.state = "fetch", !.method = method,
                               !.available = auth.loaded /\ auth.session,
                               !.fetches = 1]
         ELSE [IdleCall EXCEPT !.state = "token", !.method = method]]
  /\ UNCHANGED <<vars, widgetVars, auth, monPage, srvActive, notifPage, formData>>

\* request after await getClerkToken(): the config is built, fetch is called
ApiTokenDone(c, issued, throws) ==
  /\ api[c].state = "token"
  /\ api' = [api EXCEPT ![c] =
       LET token == getClerkToken(auth, issued, throws)
       IN [@ EXCEPT !.state = "fetch", !.token = token,
                    !.available = (token # NoValue),
                    !.headers = RequestHeaders(token),
                    !.fetches = @ + 1]]
  /\ UNCHANGED <<vars, widgetVars, auth, monPage, srvActive, notifPage, formData>>

\* request that tries once more after a response that is not ok
requestAfterFetchRetry(call, status) ==
  IF status # 0 /\ ~ResponseOk(status) /\ call.fetches < 2
    THEN [call EXCEPT !.fetches = @ + 1]
    ELSE [call EXCEPT !.state = IF ResponseOk(status) THEN "returned" ELSE "thrown",
                      !.response = status,
                      !.error = IF ResponseOk(status) THEN 0 ELSE status]

\* request after await fetch(): the data is returned, or an error is thrown:
\* "HTTP error! status: <status>" for a response that is not ok, fetch's own
\* error (rethrown by the catch) when fetch rejected
requestAfterFetch(call, status) ==
  [call EXCEPT !.state = IF ResponseOk(status) THEN "returned" ELSE "thrown",
               !.response = status,
               !.error = IF ResponseOk(status) THEN 0 ELSE status]

\* healthCheck after await fetch(): response.json() whatever the status
healthCheckAfterFetch(call, status) ==
  [call EXCEPT !.state = IF status = 0 THEN "thrown" ELSE "returned",
               !.response = status]

ApiFetchDone(c, status) ==
  /\ api[c].state = "fetch"
  /\ api' = [api EXCEPT ![c] =
       IF @.method = "healthCheck" THEN healthCheckAfterFetch(@, status)
       ELSE requestAfterFetch(@, status)]
  /\ UNCHANGED <<vars, widgetVars, auth, monPage, srvActive, notifPage, formData>>

\* the caller has the result
ApiReturn(c) ==
  /\ api[c].state \in {"returned", "thrown"}
  /\ api' = [api EXCEPT ![c] = IdleCall]
  /\ UNCHANGED <<vars, widgetVars, auth, monPage, srvActive, notifPage, formData>>

\* --------------------------------------------------- the Notifications page
Filters == {"all", "unread", "read"}

PerPage == 50      \* apiService.getNotifications(1, 50, ...)

\* GET /api/notifications?page=1&per_page=..&unread_only=..: the owner's
\* notifications, newest first, the unread ones alone when unread_only
ServerNotifications(unreadOnly, perPage) ==
  Take(SelectSeq(srv.notifs, LAMBDA n : /\ n.id \notin srvDeleted
                                        /\ unreadOnly => ~n.is_read),
       perPage)

\* the notification matches the filter value of the select
MatchesFilter(n, filter) ==
  CASE filter = "unread" -> ~n.is_read
    [] filter = "read" -> n.is_read
    [] OTHER -> TRUE

\* loadNotifications up to its await: the request carries unread_only
loadNotifications(pg) ==
  [pg EXCEPT !.pending = @ \cup {pg.filter = "unread"}]

\* loadStats up to its await
loadNotificationStats(pg) == [pg EXCEPT !.statsPending = TRUE]

\* the page as rendered first: filter 'all', nothing selected, and the effect
\* has called loadNotifications() and loadStats(); deletes: the requests of
\* Delete Selected in flight and what became of their Promise.all
NoDeletes == [pending |-> {}, state |-> "idle"]

InitNotifPage ==
  [filter |-> "all", notifications |-> <<>>, pending |-> {FALSE},
   statsPending |-> TRUE, selected |-> {}, deletes |-> NoDeletes]

\* the select changes the filter; the effect on [filter] loads again
SetFilter(f) ==
  /\ f # notifPage.filter
  /\ notifPage' = loadNotificationStats(loadNotifications([notifPage EXCEPT !.filter = f]))
  /\ UNCHANGED <<vars, widgetVars, auth, monPage, srvActive, formData, api>>

\* the Refresh button
RefreshNotifications ==
  /\ notifPage' = loadNotifications(notifPage)
  /\ UNCHANGED <<vars, widgetVars, auth, monPage, srvActive, formData, api>>

\* loadNotifications after its await, for the request that carried
\* unread_only = unreadOnly; ok: the request succeeded
NotifLoadDone(unreadOnly, ok) ==
  /\ unreadOnly \in notifPage.pending
  /\ notifPage' = [notifPage EXCEPT
                     !.pending = @ \ {unreadOnly},
                     !.notifications =
                        IF ok THEN ServerNotifications(unreadOnly, PerPage) ELSE @]
  /\ UNCHANGED <<vars, widgetVars, auth, monPage, srvActive, formData, api>>

\* handleMarkAsRead([id]), from the click to the end of its request: the
\* backend marks the notification read, the page loads again
handleMarkAsRead(id, ok) ==
  /\ \E i \in 1..Len(notifPage.notifications) :
        notifPage.notifications[i].id = id
  /\ srv' = IF ok
              THEN [srv EXCEPT !.notifs =
                      [i \in 1..Len(@) |->
                         IF @[i].id = id
                           THEN [@[i] EXCEPT !.is_read = TRUE, !.read_at = Now]
                           ELSE @[i]]]
              ELSE srv
  /\ notifPage' =
        IF ok THEN [loadNotificationStats(loadNotifications(notifPage))
                      EXCEPT !.selected = {}]
              ELSE notifPage
  /\ UNCHANGED <<store, hookVars, missed, widgetVars, auth, monPage,
                 srvActive, formData, api>>

\* the ids of the notifications the page shows
Displayed(pg) == {pg.notifications[i].id : i \in 1..Len(pg.notifications)}

\* loadStats after its await
NotifStatsDone ==
  /\ notifPage.statsPending
  /\ notifPage' = [notifPage EXCEPT !.statsPending = FALSE]
  /\ UNCHANGED <<vars, widgetVars, auth, monPage, srvActive, formData, api>>

\* the checkbox of a notification in the list
handleSelectNotification(id) ==
  /\ id \in Displayed(notifPage)
  /\ notifPage' = [notifPage EXCEPT
                     !.selected = IF id \in @ THEN @ \ {id} ELSE @ \cup {id}]
  /\ UNCHANGED <<vars, widgetVars, auth, monPage, srvActive, formData, api>>

\* the Select All checkbox, rendered when the list is not empty
handleSelectAll ==
  /\ notifPage.notifications # <<>>
  /\ notifPage' = [notifPage EXCEPT
                     !.selected =
                        IF Cardinality(@) = Len(notifPage.notifications)
                          THEN {} ELSE Displayed(notifPage)]
  /\ UNCHANGED <<vars, widgetVars, auth, monPage, srvActive, formData, api>>

\* DELETE /api/notifications/{id}: ok unless the request fails or the
\* notification is gone already
DeleteOk(id, ok) == ok /\ id \notin srvDeleted

\* handleDeleteNotification(id), from the click to the end of its request
handleDeleteNotification(id, confirmed, ok) ==
  /\ id \in Displayed(notifPage)
  /\ srvDeleted' = IF confirmed /\ DeleteOk(id, ok)
                     THEN srvDeleted \cup {id} ELSE srvDeleted
  /\ notifPage' = IF confirmed /\ DeleteOk(id, ok)
                    THEN loadNotificationStats(loadNotifications(notifPage))
                    ELSE notifPage
  /\ UNCHANGED <<vars, outbox, dash, header, stopped, auth, monPage,
                 srvActive, formData, api>>

\* handleDeleteSelected up to its await: one request per selected id
handleDeleteSelected(confirmed) ==
  /\ notifPage.notifications # <<>>
  /\ notifPage.selected # {}
  /\ notifPage.deletes.pending = {}
  /\ notifPage' = IF confirmed
                    THEN [notifPage EXCEPT
                            !.deletes = [pending |-> notifPage.selected,
                                         state |-> "waiting"]]
                    ELSE notifPage
  /\ UNCHANGED <<vars, widgetVars, auth, monPage, srvActive, formData, api>>

\* handleDeleteSelected after one of its requests has settled: Promise.all
\* rejects with the first failure (the catch logs it), and resolves when the
\* last request has succeeded (reload, stats, selection cleared)
deleteSettled(pg, id, ok) ==
  LET rest == pg.deletes.pending \ {id}
  IN IF pg.deletes.state # "waiting" THEN [pg EXCEPT !.deletes.pending = rest]
     ELSE IF ~ok
       THEN [pg EXCEPT !.deletes = [pending |-> rest, state |-> "rejected"]]
     ELSE IF rest = {}
       THEN [loadNotificationStats(loadNotifications(pg))
               EXCEPT !.selected = {},
                      !.deletes = [pending |-> rest, state |-> "resolved"]]
     ELSE [pg EXCEPT !.deletes.pending = rest]

DeleteSettled(id, ok) ==
  /\ id \in notifPage.deletes.pending
  /\ srvDeleted' = IF DeleteOk(id, ok) THEN srvDeleted \cup {id} ELSE srvDeleted
  /\ notifPage' = deleteSettled(notifPage, id, DeleteOk(id, ok))
  /\ UNCHANGED <<vars, outbox, dash, header, stopped, auth, monPage,
                 srvActive, formData, api>>

\* ------------------------------------------------- the Create Monitor form
MinInterval == 60        \* the input's min attribute
MaxInterval == 86400     \* the input's max attribute
DefaultInterval == 300   \* check_interval of the form's initial state

\* a JavaScript number: an integer, or NaN; and JSON's null
Num(n) == [kind |-> "int", n |-> n]

NaN == [kind |-> "NaN", n |-> 0]

JSONNull == [kind |-> "null", n |-> 0]

\* what the owner can leave in the number input: no number at all (digits
\* -1: the field is empty), or digits with or without a fraction
InputTexts ==
  [digits : {-1, 1, 30, MinInterval, DefaultInterval, MaxInterval,
             MaxInterval + 1},
   fraction : BOOLEAN]

\* parseInt(e.target.value): the leading digits, NaN when there are none
parseInt(text) == IF text.digits = -1 THEN NaN ELSE Num(text.digits)

MonitorTypes == {"content", "price", "selector"}

InitFormData ==
  [name |-> "", url |-> "", monitor_type |-> "content", css_selector |-> "",
   item_name |-> "", item_type |-> "auto",
   check_interval |-> Num(DefaultInterval), notification_enabled |-> TRUE]

\* the form: its state, whether the modal is shown, and the body of the last
\* createMonitor request (history)
InitForm == [data |-> InitFormData, show |-> FALSE, posted |-> <<>>]

\* the browser's constraint validation of the number input before the submit
\* event: the input shows the state's value; NaN shows as an empty field,
\* which is valid since the input is not required
IntervalInputValid(v) ==
  v.kind = "NaN" \/ (MinInterval <= v.n /\ v.n <= MaxInterval)

\* JSON.stringify of a number: NaN becomes null
JSONNumber(v) == IF v.kind = "NaN" THEN JSONNull ELSE v

\* JSON.stringify(monitorData), the body of POST /monitors
CreateMonitorBody(data) ==
  [data EXCEPT !.check_interval = JSONNumber(@)]

OpenCreateForm ==
  /\ ~formData.show
  /\ formData' = [formData EXCEPT !.show = TRUE]
  /\ UNCHANGED <<vars, widgetVars, auth, monPage, srvActive, notifPage, api>>

CancelCreateForm ==
  /\ formData.show
  /\ formData' = [formData EXCEPT !.show = FALSE]
  /\ UNCHANGED <<vars, widgetVars, auth, monPage, srvActive, notifPage, api>>

\* the form passes the browser's validation: name and url are required
FormValid(data) ==
  /\ data.name # ""
  /\ data.url # ""
  /\ IntervalInputValid(data.check_interval)

\* onChange of the Monitor Name input
EditName(text) ==
  /\ formData.show
  /\ formData' = [formData EXCEPT !.data.name = text]
  /\ UNCHANGED <<vars, widgetVars, auth, monPage, srvActive, notifPage, api>>

\* onChange of the URL input
EditUrl(text) ==
  /\ formData.show
  /\ formData' = [formData EXCEPT !.data.url = text]
  /\ UNCHANGED <<vars, widgetVars, auth, monPage, srvActive, notifPage, api>>

\* onChange of the Check Interval input
EditCheckInterval(text) ==
  /\ formData.show
  /\ formData' = [formData EXCEPT !.data.check_interval = parseInt(text)]
  /\ UNCHANGED <<vars, widgetVars, auth, monPage, srvActive, notifPage, api>>

\* onChange of the Monitor Type select
EditMonitorType(type) ==
  /\ formData.show
  /\ formData' = [formData EXCEPT !.data.monitor_type = type]
  /\ UNCHANGED <<vars, widgetVars, auth, monPage, srvActive, notifPage, api>>

\* the submit button: the browser validates, then handleCreateMonitor posts
\* the form's state; ok: the request succeeded, the form is reset and closed
handleCreateMonitor(ok) ==
  /\ formData.show
  /\ FormValid(formData.data)
  /\ formData' =
       IF ok THEN [data |-> InitFormData, show |-> FALSE,
                   posted |-> <<CreateMonitorBody(formData.data)>>]
       ELSE [formData EXCEPT !.posted = <<CreateMonitorBody(formData.data)>>]
  /\ UNCHANGED <<vars, widgetVars, auth, monPage, srvActive, notifPage, api>>

\* ------------------------------------ the monitor list and its persistence
\* the strategy of a monitor: its type with the fields that type uses
Strategies ==
  {[monitor_type |-> "content", css_selector |-> NoValue, item_name |-> NoValue],
   [monitor_type |-> "price", css_selector |-> NoValue, item_name |-> NoValue],
   [monitor_type |-> "selector", css_selector |-> ".price", item_name |-> NoValue],
   [monitor_type |-> "item_search", css_selector |-> NoValue, item_name |-> "tv"]}

\* a Monitor as GET /monitors returns it before its first check
ApiMonitor(m, strategy, active) ==
  [id |-> m, name |-> "m", url |-> "https://x",
   monitor_type |-> strategy.monitor_type,
   css_selector |-> strategy.css_selector,
   item_name |-> strategy.item_name,
   check_interval |-> DefaultInterval, is_active |-> active,
   current_value |-> NoValue, last_checked |-> NullRef,
   last_changed |-> NullRef]

\* the lists GET /monitors may return: the owner's first n monitors
ApiMonitorLists ==
  UNION {[1..n -> Strategies \X BOOLEAN] : n \in 0..NumMonitors}

\* the store's setMonitors called with a list GET /monitors returned
SetMonitors(list) ==
  /\ store' = setMonitors(store,
                 [i \in 1..Len(list) |-> ApiMonitor(i, list[i][1], list[i][2])])
  /\ UNCHANGED <<pageVars, widgetVars, hookVars, srv, missed>>

\* the monitor_update frames of a check of monitor m at one of two times
PersistFrames ==
  {MonitorUpdateFrame(m, value, t, changed) :
     m \in MonitorIds, value \in {"a", "b"}, t \in {1, MaxClock},
     changed \in BOOLEAN}

\* --------------------------------------------- adding and removing entries
Slices == {"summaries", "monitors", "notifications"}

ItemIds(st, slice) == {st[slice].items[i].id : i \in 1..Len(st[slice].items)}

\* the entry with this id that the backend returns for the slice
NewItem(slice, id) ==
  CASE slice = "summaries" -> [id |-> id]
    [] slice = "monitors" -> [id |-> id, is_active |-> TRUE]
    [] slice = "notifications" -> NewNotification(1, id, id)

\* addSummary / addMonitor / addNotification with an entry not yet listed
AddItem(slice, id) ==
  /\ Len(store[slice].items) < MaxListed
  /\ id \notin ItemIds(store, slice)
  /\ store' = CASE slice = "summaries" -> addSummary(store, NewItem(slice, id))
                 [] slice = "monitors" -> addMonitor(store, NewItem(slice, id))
                 [] slice = "notifications" ->
                      addNotification(store, NewItem(slice, id))
  /\ UNCHANGED <<pageVars, widgetVars, hookVars, srv, missed>>

\* removeSummary / removeMonitor / removeNotification with any id
RemoveItem(slice, id) ==
  /\ store' = CASE slice = "summaries" -> removeSummary(store, id)
                 [] slice = "monitors" -> removeMonitor(store, id)
                 [] slice = "notifications" -> removeNotification(store, id)
  /\ UNCHANGED <<pageVars, widgetVars, hookVars, srv, missed>>

\* ------------------------------------------------------------ the Dashboard
setStatsLoading(st, loading) ==
  [st EXCEPT !.stats = MergeUpdates(st.stats, [loading |-> loading])]

setStatsError(st, error) ==
  [st EXCEPT !.stats = MergeUpdates(st.stats, [error |-> error, loading |-> FALSE])]

setSummaryStats(st, stats) ==
  [st EXCEPT !.stats = MergeUpdates(st.stats,
       [summaries |-> stats, loading |-> FALSE, error |-> "null"])]

setMonitorStats(st, stats) ==
  [st EXCEPT !.stats = MergeUpdates(st.stats,
       [monitors |-> stats, loading |-> FALSE, error |-> "null"])]

setNotificationStats(st, stats) ==
  [st EXCEPT !.stats = MergeUpdates(st.stats,
       [notifications |-> stats, loading |-> FALSE, error |-> "null"])]

setSummaries(st, summaries) ==
  [st EXCEPT !.summaries =
     MergeUpdates(st.summaries,
                  [items |-> summaries, loading |-> FALSE, error |-> "null"])]

setSummariesError(st, error) ==
  [st EXCEPT !.summaries =
     MergeUpdates(st.summaries, [error |-> error, loading |-> FALSE])]

\* what the three stats requests and getSummaries settled with
Settled == [summaryStats : BOOLEAN, monitorStats : BOOLEAN,
            notificationStats : BOOLEAN, summaries : BOOLEAN]

\* loadDashboardData after Promise.allSettled, the five results in order;
\* recent: what getRecentNotifications resolved to (it never rejects)
afterAllSettled(st, r, recent) ==
  LET s1 == IF r.summaryStats THEN setSummaryStats(st, "stats")
            ELSE setStatsError(st, "Failed to load summary stats")
      s2 == IF r.monitorStats THEN setMonitorStats(s1, "stats")
            ELSE setStatsError(s1, "Failed to load monitor stats")
      s3 == IF r.notificationStats THEN setNotificationStats(s2, "stats")
            ELSE setStatsError(s2, "Failed to load notification stats")
      s4 == IF r.summaries THEN setSummaries(s3, <<>>)
            ELSE setSummariesError(s3, "Failed to load recent summaries")
      s5 == setNotifications(s4, recent)
  IN setStatsLoading(s5, FALSE)

\* loadDashboardData up to its await: on mount, after a summary, or from a
\* Refresh button
LoadDashboardData ==
  /\ dash < MaxLoads
  /\ dash' = dash + 1
  /\ store' = setStatsLoading(store, TRUE)
  /\ UNCHANGED <<pageVars, outbox, srvDeleted, header, stopped, hookVars, srv,
                 missed>>

DashboardDataSettled(r, ok) ==
  /\ dash > 0
  /\ dash' = dash - 1
  /\ store' = afterAllSettled(store, r,
                 IF ok THEN Take(srv.notifs, RecentLimit) ELSE <<>>)
  /\ UNCHANGED <<pageVars, outbox, srvDeleted, header, stopped, hookVars, srv,
                 missed>>

\* --------------------------------------------------------------- the Header
\* a JavaScript value the Header holds: a plain object or an array
Object(value) == [kind |-> "object", value |-> value]

\* const { notifications } = useAppStore(): the store's notifications slice
HeaderNotifications(st) == Object(st.notifications)

\* notifications.filter(n => !n.is_read).length: an array has filter; on a
\* plain object the property is undefined and calling it throws a TypeError
UnreadLength(notifications) ==
  IF notifications.kind = "array"
    THEN [threw |-> FALSE,
          length |-> Len(SelectSeq(notifications.value, LAMBDA n : ~n.is_read))]
    ELSE [threw |-> TRUE, length |-> 0]

\* GET /api/notifications/stats: unread_notifications
ServerUnread ==
  Len(SelectSeq(srv.notifs, LAMBDA n : n.id \notin srvDeleted /\ ~n.is_read))

\* the Header as rendered first: unreadCount 0, and the effect has called
\* fetchUnreadCount(); calls: the notifications each pending call closed
\* over; escaped is history: an error left fetchUnreadCount
InitHeader ==
  [unreadCount |-> 0, calls |-> <<HeaderNotifications(InitStore)>>,
   escaped |-> FALSE]

\* fetchUnreadCount up to its await: the 30 s interval, or the effect run
\* again for new notifications
FetchUnreadCount ==
  /\ Len(header.calls) < MaxLoads
  /\ header' = [header EXCEPT !.calls = Append(@, HeaderNotifications(store))]
  /\ UNCHANGED <<vars, pageVars, outbox, srvDeleted, dash, stopped>>

\* fetchUnreadCount after its await, for the i-th pending call
fetchUnreadCountDone(h, i, ok, unread) ==
  LET fallback == UnreadLength(h.calls[i])
      rest == SubSeq(h.calls, 1, i - 1) \o SubSeq(h.calls, i + 1, Len(h.calls))
  IN IF ok THEN [h EXCEPT !.calls = rest, !.unreadCount = unread]
     ELSE IF fallback.threw THEN [h EXCEPT !.calls = rest, !.escaped = TRUE]
     ELSE [h EXCEPT !.calls = rest, !.unreadCount = fallback.length]

FetchUnreadCountDone(i, ok) ==
  /\ i \in 1..Len(header.calls)
  /\ header' = fetchUnreadCountDone(header, i, ok, ServerUnread)
  /\ UNCHANGED <<vars, pageVars, outbox, srvDeleted, dash, stopped>>

\* Clerk and the pages at the start
PageInit ==
  /\ auth = [loaded |-> FALSE, session |-> FALSE]
  /\ monPage = UnmountedPage
  /\ srvActive = [m \in MonitorIds |-> TRUE]
  /\ notifPage = InitNotifPage
  /\ formData = InitForm
  /\ api = [c \in 1..MaxCalls |-> IdleCall]

\* ------------------------------------------------------------------ system
\* the state once the component has mounted and its effect has run connect()
Init ==
  /\ store = InitStore
  /\ reconnectTimeoutRef = NullRef
  /\ isConnected = FALSE
  /\ mounted = TRUE
  /\ timers = {}
  /\ srv = InitSrv
  /\ disconnectCalled = FALSE
  /\ missed = {}
  /\ PageInit
  /\ outbox = InitOutbox
  /\ srvDeleted = {}
  /\ dash = 0
  /\ header = InitHeader
  /\ stopped = FALSE
  /\ \E throws \in BOOLEAN :
       LET none == [s \in SockIds |-> FreeSock]
       IN /\ socks = IF throws THEN none ELSE NewSocket(none)
          /\ wsRef = IF throws THEN NullRef ELSE MinOf(SockIds)
          /\ connectionStatus = IF throws THEN "disconnected" ELSE "connecting"

\* the hook: its calls, its sockets' events and its timers
HookNext ==
  \/ \E throws \in BOOLEAN : Reconnect(throws)
  \/ \E s \in SockIds : OnOpen(s)
  \/ \E s \in SockIds : OnMessage(s)
  \/ \E s \in SockIds : OnClose(s)
  \/ \E s \in SockIds : OnError(s)
  \/ \E t \in TimerIds, throws \in BOOLEAN : TimerFire(t, throws)
  \/ Disconnect
  \/ Unmount
  \/ \E throws \in BOOLEAN : UrlChange(throws)

\* the notification path: the hook, the backend's checks, the dashboard's
\* load and the read marks
Next ==
  \/ HookNext
  \/ \E m \in MonitorIds, differs \in BOOLEAN : SrvCheck(m, differs)
  \/ \E ok \in BOOLEAN : LoadNotifications(ok)
  \/ \E id \in Times : MarkNotificationRead(id)
  \/ MarkAllNotificationsRead

Spec == Init /\ [][Next]_vars

\* the monitor path: the hook, the backend's checks and the monitor list
MonNext ==
  \/ HookNext
  \/ \E m \in MonitorIds, differs \in BOOLEAN : SrvCheck(m, differs)
  \/ LoadMonitors

MonSpec == Init /\ [][MonNext]_vars

\* frames the hook has no handler for, among the backend's events
FrameNext ==
  \/ HookNext
  \/ \E m \in MonitorIds, differs \in BOOLEAN : SrvCheck(m, differs)
  \/ \E s \in SockIds, f \in OtherFrames : SrvSendOther(s, f)

FrameSpec == Init /\ [][FrameNext]_vars

\* the hook's connection life cycle alone
LifeNext ==
  \/ HookNext
  \/ \E s \in SockIds, f \in OtherFrames : SrvSendOther(s, f)

LifeSpec == Init /\ [][LifeNext]_vars

\* a pending setTimeout callback runs once its delay has passed
FairLifeSpec ==
  LifeSpec /\ \A t \in TimerIds : WF_vars(\E throws \in BOOLEAN : TimerFire(t, throws))

\* the hook with a component that sends messages
SendNext ==
  \/ LifeNext
  \/ SendMessage

SendSpec == Init /\ [][SendNext]_allVars

\* the Dashboard's loads over the backend's notifications
DashNext ==
  \/ \E m \in MonitorIds, differs \in BOOLEAN : SrvCheck(m, differs)
  \/ LoadDashboardData
  \/ \E r \in Settled, ok \in BOOLEAN : DashboardDataSettled(r, ok)

DashSpec == Init /\ [][DashNext]_allVars

\* the Header over the store's notifications and the backend's
HeaderNext ==
  \/ \E m \in MonitorIds, differs \in BOOLEAN : SrvCheck(m, differs)
  \/ \E ok \in BOOLEAN : LoadNotifications(ok)
  \/ \E id \in 1..RemovableIds : MarkNotificationRead(id)
  \/ FetchUnreadCount
  \/ \E i \in 1..MaxLoads, ok \in BOOLEAN : FetchUnreadCountDone(i, ok)

HeaderSpec == Init /\ [][HeaderNext]_allVars

\* the store's lists as entries are added and removed
RemoveNext ==
  \/ \E slice \in Slices, id \in 1..MaxListed + 1 : AddItem(slice, id)
  \/ \E slice \in Slices, id \in 1..MaxListed + 1 : RemoveItem(slice, id)

RemoveSpec == Init /\ [][RemoveNext]_allVars

\* the store on its own: frames, the owner's actions, reset and page reload
StoreNext ==
  \/ \E f \in StoreFrames(store) : StoreReceive(f)
  \/ \E id \in 1..RemovableIds : RemoveNotification(id)
  \/ \E ok \in BOOLEAN : LoadNotifications(ok)
  \/ ResetStore
  \/ \E id \in 1..RemovableIds : MarkNotificationRead(id)
  \/ Rehydrate

StoreSpec == Init /\ [][StoreNext]_allVars

\* the monitor list of the store: loaded, updated by frames, reloaded
PersistNext ==
  \/ \E list \in ApiMonitorLists : SetMonitors(list)
  \/ \E f \in PersistFrames : StoreReceive(f)
  \/ Rehydrate

PersistSpec == Init /\ [][PersistNext]_allVars

\* the application behind AuthGuard, on the Monitors page
AppNext ==
  \/ \E session \in BOOLEAN : ClerkLoaded(session)
  \/ SignIn
  \/ SignOut
  \/ \E i \in 1..MaxLoads : GetMonitorsServed(i)
  \/ \E i \in 1..MaxLoads, ok \in BOOLEAN : LoadMonitorsDone(i, ok)
  \/ LoadStatsDone
  \/ Refresh
  \/ \E m \in MonitorIds, ok \in BOOLEAN : handleToggleMonitor(m, ok)
  \/ \E m \in MonitorIds : handleCheckMonitor(m)
  \/ \E m \in MonitorIds, ok \in BOOLEAN : CheckMonitorDone(m, ok)
  \/ \E r \in 1..MaxRuns, confirmed \in BOOLEAN : handleCheckAllMonitors(r, confirmed)
  \/ \E r \in 1..MaxRuns, ok \in BOOLEAN : CheckAllDone(r, ok)

AppSpec == Init /\ [][AppNext]_allVars

\* ApiService's calls while Clerk loads and the user signs in and out
ApiNext ==
  \/ \E session \in BOOLEAN : ClerkLoaded(session)
  \/ SignIn
  \/ SignOut
  \/ \E c \in 1..MaxCalls, method \in ApiMethods : ApiCall(c, method)
  \/ \E c \in 1..MaxCalls, issued \in Tokens, throws \in BOOLEAN :
        ApiTokenDone(c, issued, throws)
  \/ \E c \in 1..MaxCalls, status \in Responses : ApiFetchDone(c, status)
  \/ \E c \in 1..MaxCalls : ApiReturn(c)

ApiSpec == Init /\ [][ApiNext]_allVars

\* the Notifications page over the backend's notifications
NotifNext ==
  \/ \E m \in MonitorIds, differs \in BOOLEAN : SrvCheck(m, differs)
  \/ \E f \in Filters : SetFilter(f)
  \/ RefreshNotifications
  \/ \E unreadOnly \in BOOLEAN, ok \in BOOLEAN : NotifLoadDone(unreadOnly, ok)
  \/ \E id \in Times, ok \in BOOLEAN : handleMarkAsRead(id, ok)

NotifSpec == Init /\ [][NotifNext]_allVars

\* the Notifications page with its selection and its deletes
SelectNext ==
  \/ NotifNext
  \/ NotifStatsDone
  \/ \E id \in Times : handleSelectNotification(id)
  \/ handleSelectAll
  \/ \E id \in Times, confirmed, ok \in BOOLEAN :
       handleDeleteNotification(id, confirmed, ok)
  \/ \E confirmed \in BOOLEAN : handleDeleteSelected(confirmed)
  \/ \E id \in Times, ok \in BOOLEAN : DeleteSettled(id, ok)

SelectSpec == Init /\ [][SelectNext]_allVars

\* the Create Monitor form
FormNext ==
  \/ OpenCreateForm
  \/ CancelCreateForm
  \/ \E text \in {"", "m"} : EditName(text)
  \/ \E text \in {"", "https://x"} : EditUrl(text)
  \/ \E text \in InputTexts : EditCheckInterval(text)
  \/ \E type \in MonitorTypes : EditMonitorType(type)
  \/ \E ok \in BOOLEAN : handleCreateMonitor(ok)

FormSpec == Init /\ [][FormNext]_allVars

\* ==================================================================== claims

\* a step of disconnect(): called directly, by the unmount cleanup or by the
\* cleanup of a url change
DisconnectStep == Disconnect \/ Unmount \/ \E throws \in BOOLEAN : UrlChange(throws)

IsNotification(frame) == frame.wellFormed /\ frame.type = "notification"

Items == store.notifications.items

\* C2: onopen changes nothing in the store and finds nothing queued on the
\* new connection; an event published while no socket of the hook is open is
\* queued on no connection; and no notification that was published to no open
\* socket is ever on its way to the store over a socket.
C2_NoReplay ==
  /\ [][\A s \in SockIds :
         OnOpen(s) => store' = store /\ socks'[s].inbox = <<>>]_vars
  /\ [][(srv'.clock # srv.clock /\ OpenSocks = {})
         => \A s \in SockIds : socks'[s].inbox = socks[s].inbox]_vars
  /\ [](\A s \in SockIds : \A i \in 1..Len(socks[s].inbox) :
          IsNotification(socks[s].inbox[i])
            => socks[s].inbox[i].data.id \notin missed)

\* C2 witness: a notification was published to no open socket, the hook has
\* an open socket again, and the store holds a later notification only
C2_Witness ==
  /\ missed # {}
  /\ OpenSocks # {}
  /\ Items # <<>>
  /\ \A i \in 1..Len(Items) : Items[i].id \notin missed

\* ---------------------------------------------------------------------- C3
\* C3: handling a notification envelope puts its data in front of
\* notifications.items as one new entry, adds 1 to pagination.total and
\* changes nothing else in the store.
C3_OneNotification ==
  [][\A s \in SockIds :
       (OnMessage(s) /\ IsNotification(Head(socks[s].inbox))) =>
         /\ Len(store'.notifications.items) = Len(Items) + 1
         /\ store'.notifications.items[1] = Head(socks[s].inbox).data
         /\ store'.notifications.pagination.total =
              store.notifications.pagination.total + 1
         /\ store' = [store EXCEPT
                        !.notifications.items = store'.notifications.items,
                        !.notifications.pagination.total =
                           store'.notifications.pagination.total]]_vars

\* C3 witness: one notification envelope has been handled
C3_Witness ==
  /\ Len(Items) = 1
  /\ store.notifications.pagination.total = 1
  /\ Items[1].id = 1

\* ---------------------------------------------------------------------- C4
\* C4: notifications.items holds at most one entry per notification id.
C4_NoDuplicateIds ==
  \A i, j \in 1..Len(Items) : Items[i].id = Items[j].id => i = j

\* ---------------------------------------------------------------------- C5
\* C5: a delivered notification goes to index 1 and the entries already in
\* the list keep their order, each one place further back; the notifications
\* waiting on one connection are in creation order, so on that connection
\* a later delivery is a newer notification.
C5_NewestFirst ==
  /\ [][\A s \in SockIds :
         (OnMessage(s) /\ IsNotification(Head(socks[s].inbox))) =>
           /\ store'.notifications.items[1] = Head(socks[s].inbox).data
           /\ \A i \in 1..Len(Items) :
                 store'.notifications.items[i + 1] = Items[i]
           /\ \A i \in 1..Len(socks'[s].inbox) :
                 IsNotification(socks'[s].inbox[i]) =>
                   socks'[s].inbox[i].data.created_at
                     > Head(socks[s].inbox).data.created_at]_vars
  /\ [](\A s \in SockIds : \A i, j \in 1..Len(socks[s].inbox) :
          (/\ i < j
           /\ IsNotification(socks[s].inbox[i])
           /\ IsNotification(socks[s].inbox[j]))
            => socks[s].inbox[i].data.created_at
                 < socks[s].inbox[j].data.created_at)

\* C5 witness: two notifications were delivered and the newer one is first
C5_Witness ==
  /\ Len(Items) = 2
  /\ store.notifications.pagination.total = 2
  /\ Items[1].created_at > Items[2].created_at

\* --------------------------------------------------------------------- C10
\* the entry differs from the old one in is_read and read_at at most
OnlyReadChanged(old, new) ==
  new = [old EXCEPT !.is_read = new.is_read, !.read_at = new.read_at]

\* the store differs from the old one in the entries of notifications.items
\* at most
OnlyItemsChanged ==
  /\ store' = [store EXCEPT !.notifications.items = store'.notifications.items]
  /\ Len(store'.notifications.items) = Len(Items)

\* C10: markNotificationRead(id) and markAllNotificationsRead keep the list's
\* length and order and every field but is_read and read_at, and
\* markNotificationRead(id) leaves the entries with another id as they were.
C10_OnlyReadFlag ==
  /\ [][\A id \in Times :
         MarkNotificationRead(id) =>
           /\ OnlyItemsChanged
           /\ \A i \in 1..Len(Items) :
                 IF Items[i].id = id
                   THEN OnlyReadChanged(Items[i], store'.notifications.items[i])
                   ELSE store'.notifications.items[i] = Items[i]]_vars
  /\ [][MarkAllNotificationsRead =>
           /\ OnlyItemsChanged
           /\ \A i \in 1..Len(Items) :
                 OnlyReadChanged(Items[i], store'.notifications.items[i])]_vars

\* C10 witness: of two notifications in the list one was marked read and the
\* other, with another id, is still unread
C10_Witness ==
  \E i, j \in 1..Len(Items) :
    /\ Items[i].id # Items[j].id
    /\ Items[i].is_read /\ Items[i].read_at # NullRef
    /\ ~Items[j].is_read /\ Items[j].read_at = NullRef

\* ---------------------------------------------------------------------- C6
IsMonitorUpdate(frame) == frame.wellFormed /\ frame.type = "monitor_update"

Monitors == store.monitors.items

\* C6: handling a monitor_update leaves every monitor with another id, the
\* length and order of monitors.items and the rest of the store as they were;
\* with no monitor of that id the store is unchanged.
C6_OnlyThatMonitor ==
  [][\A s \in SockIds :
       (OnMessage(s) /\ IsMonitorUpdate(Head(socks[s].inbox))) =>
         LET id == Head(socks[s].inbox).data.monitor_id
         IN /\ store' = [store EXCEPT !.monitors.items = store'.monitors.items]
            /\ Len(store'.monitors.items) = Len(Monitors)
            /\ \A i \in 1..Len(Monitors) :
                  /\ store'.monitors.items[i].id = Monitors[i].id
                  /\ Monitors[i].id # id => store'.monitors.items[i] = Monitors[i]
            /\ (\A i \in 1..Len(Monitors) : Monitors[i].id # id)
                  => store' = store]_vars

\* C6 witness: updates were applied to monitor 1 of the two loaded monitors
\* (it shows check time 3 with a value that no load gives with it), and
\* monitor 2 is as loaded
C6_Witness ==
  /\ Len(Monitors) = 2
  /\ Monitors[1].last_checked = MaxClock
  /\ Monitors[1].current_value = "b"
  /\ Monitors[1].last_changed = NullRef
  /\ Monitors[2] = srv.monitors[2]

\* ---------------------------------------------------------------------- C7
\* C7: the monitor a monitor_update names gets the payload's current_value
\* and last_checked; its last_changed becomes the payload's last_checked when
\* has_changed is set and stays as stored otherwise; its other fields stay.
C7_UpdateFields ==
  [][\A s \in SockIds :
       (OnMessage(s) /\ IsMonitorUpdate(Head(socks[s].inbox))) =>
         LET p == Head(socks[s].inbox).data
         IN \A i \in 1..Len(Monitors) :
              Monitors[i].id = p.monitor_id =>
                LET new == store'.monitors.items[i]
                IN /\ new.current_value = p.current_value
                   /\ new.last_checked = p.last_checked
                   /\ new.last_changed = IF p.has_changed THEN p.last_checked
                                         ELSE Monitors[i].last_changed
                   /\ new = [Monitors[i] EXCEPT
                               !.current_value = new.current_value,
                               !.last_checked = new.last_checked,
                               !.last_changed = new.last_changed]]_vars

\* C7 witness: an update without has_changed set last_checked to 1 and left
\* the stored last_changed, 2, in place
C7_Witness ==
  /\ Len(Monitors) = 2
  /\ Monitors[1].last_checked = 1
  /\ Monitors[1].last_changed = 2

\* ---------------------------------------------------------------------- C8
\* C8: every monitor in the store has last_changed <= last_checked.
C8_ChangedNotAfterChecked ==
  \A i \in 1..Len(Monitors) : Monitors[i].last_changed <= Monitors[i].last_checked

\* ---------------------------------------------------------------------- C9
\* C9: a system_status envelope, an envelope of an unknown type and a frame
\* that is not JSON leave the store, the socket, its handlers' state and the
\* timers as they were; the socket stays open with the rest of its frames
\* next in line.
C9_IgnoredFrames ==
  [][\A s \in SockIds :
       (OnMessage(s) /\ ~Handled(Head(socks[s].inbox))) =>
         /\ store' = store
         /\ socks'[s].readyState = "open"
         /\ socks'[s].inbox = Tail(socks[s].inbox)
         /\ \A r \in SockIds \ {s} : socks'[r] = socks[r]
         /\ UNCHANGED <<wsRef, reconnectTimeoutRef, isConnected,
                        connectionStatus, timers>>]_vars

\* C9 witness: a socket that has handled such a frame is open and has the
\* backend's next event to handle
C9_Witness ==
  \E s \in SockIds :
    /\ socks[s].ignored
    /\ socks[s].readyState = "open"
    /\ socks[s].inbox # <<>>
    /\ Handled(Head(socks[s].inbox))

\* C11: a notification leaves notifications.items only by removeNotification
\* for its id, by a replacement of the list (setNotifications) or by
\* resetStore; no frame, no other store action and no reload of the persisted
\* store removes one.
C11_OnlyExplicitRemoval ==
  [][LET gone == NotificationIds(store) \ NotificationIds(store')
     IN \A id \in gone :
          \/ RemoveNotification(id)
          \/ \E ok \in BOOLEAN : LoadNotifications(ok)
          \/ ResetStore]_allVars

\* C12: from the Monitors page no two check requests for one monitor id are
\* in flight at the same time.
C12_OneCheckPerMonitor ==
  \A m \in MonitorIds : InFlightFor(monPage, m) <= 1

\* the step sends a check request of Check All run r for monitor m
SentByRun(m, r) ==
  monPage'.inflight[[id |-> m, run |-> r]] > monPage.inflight[[id |-> m, run |-> r]]

\* monitor m is in the page's list with is_active true
ActiveInList(pg, m) ==
  \E i \in 1..Len(pg.monitors) : pg.monitors[i].id = m /\ pg.monitors[i].is_active

\* C13: whenever a Check All run sends a check request for a
\* monitor, that monitor's is_active is true in the page's monitor list.
C13_OnlyActiveChecked ==
  [][\A m \in MonitorIds, r \in 1..MaxRuns :
       SentByRun(m, r) => ActiveInList(monPage, m)]_allVars

\* C14: when a request of a Check All run ends, failed or not, the run goes
\* on: the next active monitor of its list gets its check request, and after
\* the last one loadMonitors() and loadStats() are called and the run is over.
C14_FailureDoesNotStop ==
  [][\A r \in 1..MaxRuns, ok \in BOOLEAN :
       CheckAllDone(r, ok) =>
         LET run == monPage.runs[r]
         IN IF run.pos < Len(run.active)
              THEN /\ SentByRun(run.active[run.pos + 1], r)
                   /\ monPage'.runs[r].pos = run.pos + 1
                   /\ monPage'.runs[r].active = run.active
              ELSE /\ monPage'.loads = monPage.loads + 1
                   /\ monPage'.statsLoads = monPage.statsLoads + 1
                   /\ monPage'.runs[r].pos = 0]_allVars

\* C14 witness: a request of the run has failed and the next monitor's
\* request is in flight
C14_Witness ==
  \E r \in 1..MaxRuns :
    /\ monPage.runs[r].failed > 0
    /\ monPage.runs[r].pos > 1
    /\ monPage.inflight[[id |-> monPage.runs[r].active[monPage.runs[r].pos],
                         run |-> r]] > 0

\* C17: the application (header, routed pages) is rendered only when Clerk has
\* loaded and the user is signed in: AuthGuard renders none of its children
\* otherwise, and the Monitors page is mounted only then.
C17_GuardedChildren ==
  /\ AuthGuard(AppChildren, auth) \cap AppChildren # {}
       => auth.loaded /\ auth.session
  /\ monPage.mounted => auth.loaded /\ auth.session

\* C17 witness: signed in, the page is mounted and has loaded its list
C17_Witness ==
  /\ monPage.mounted
  /\ AppChildren \subseteq AuthGuard(AppChildren, auth)
  /\ monPage.monitors # <<>>

\* the call went through ApiService.request
ViaRequest(call) == call.method # "" /\ call.method # "healthCheck"

SentWithToken(call) ==
  call.state \in {"fetch", "returned", "thrown"} /\ call.available

\* C16, as stated: every HTTP request the service sends while a Clerk token is
\* obtainable carries Authorization: Bearer <token>, for every method.
C16_Original ==
  \A c \in 1..MaxCalls :
    SentWithToken(api[c]) =>
      /\ "Authorization" \in DOMAIN api[c].headers
      /\ \E t \in Tokens : api[c].headers.Authorization = <<"Bearer", t>>

\* C16, amended: every HTTP request sent through ApiService.request, that is
\* by every method but healthCheck, carries Authorization: Bearer <token>
\* with the token getClerkToken returned, and none when it returned null;
\* healthCheck sends its request without any header.
C16_Amended ==
  \A c \in 1..MaxCalls :
    api[c].state \in {"fetch", "returned", "thrown"} =>
      IF ViaRequest(api[c])
        THEN IF api[c].available
               THEN /\ "Authorization" \in DOMAIN api[c].headers
                    /\ api[c].token \in Tokens
                    /\ api[c].headers.Authorization = <<"Bearer", api[c].token>>
               ELSE "Authorization" \notin DOMAIN api[c].headers
        ELSE api[c].headers = NoHeaders

\* C16 witness: two calls of request are in flight with different tokens
C16_Witness ==
  \E c, e \in 1..MaxCalls :
    /\ ViaRequest(api[c]) /\ ViaRequest(api[e])
    /\ api[c].state = "fetch" /\ api[e].state = "fetch"
    /\ api[c].available /\ api[e].available
    /\ api[c].token # api[e].token

\* C18: when the Notifications page has loaded its list for the filter it
\* shows, the list holds exactly the backend's notifications that match the
\* filter: the unread ones for 'unread', the read ones for 'read', all of
\* them for 'all'.
C18_ListMatchesFilter ==
  [][\A unreadOnly \in BOOLEAN :
       (/\ NotifLoadDone(unreadOnly, TRUE)
        /\ unreadOnly = (notifPage.filter = "unread"))
         => notifPage'.notifications =
              SelectSeq(srv.notifs,
                        LAMBDA n : MatchesFilter(n, notifPage.filter))]_allVars

\* C19: every createMonitor request submitted from the form carries a
\* check_interval that is an integer from 60 to 86400.
C19_IntervalInRange ==
  \A i \in 1..Len(formData.posted) :
    /\ formData.posted[i].check_interval.kind = "int"
    /\ MinInterval <= formData.posted[i].check_interval.n
    /\ formData.posted[i].check_interval.n <= MaxInterval

\* C20: persisting the store and rehydrating it gives back the monitor list
\* that was persisted: the same monitors in the same order, each with every
\* field and value it had, whatever its strategy.
C20_MonitorsRoundTrip ==
  rehydrate(Serialize(store)).monitors.items = store.monitors.items

\* C20 witness: the store has just been rehydrated (its monitors part has the
\* persisted keys alone) and holds two monitors of different strategies, one
\* of them an item search, one with a change recorded by a frame
C20_Witness ==
  LET items == store.monitors.items IN
    /\ "loading" \notin DOMAIN store.monitors
    /\ Len(items) = NumMonitors
    /\ \E i, j \in 1..Len(items) :
         /\ items[i].monitor_type = "item_search" /\ items[i].item_name = "tv"
         /\ items[j].monitor_type = "selector"
         /\ items[j].css_selector = ".price"
         /\ items[j].last_changed # NullRef
         /\ items[i].current_value = NoValue

\* C21: a message passed to sendMessage while the hook's socket is missing
\* or not OPEN is dropped: the call does not throw, and the message is not
\* sent, then or at any later time (after a reconnect included).
C21_DroppedNotSent ==
  /\ outbox.threw = {}
  /\ outbox.notOpen \cap outbox.sent = {}

\* C21 witness: the first message was passed while no socket was open;
\* after a disconnect and a reconnect the hook has an open socket and the
\* second message went out over it
C21_Witness ==
  /\ 1 \in outbox.notOpen
  /\ 2 \in outbox.sent
  /\ disconnectCalled
  /\ wsRef \in SockIds /\ socks[wsRef].readyState = "open"

\* C22: from a call of disconnect() (direct, or by the effect's cleanup)
\* until the component calls connect/reconnect, no reconnect timer is pending
\* and the hook creates no WebSocket, also once the closed socket's close
\* event has fired.
C22_StaysDisconnected ==
  /\ [](stopped => timers = {})
  /\ [][(stopped /\ stopped')
         => \A s \in SockIds :
              socks'[s].readyState = "connecting"
                => socks[s].readyState = "connecting"]_allVars

\* C23: at most one WebSocket the hook has created is live (connecting or
\* open, its handlers attached) at any time.
C23_OneLiveSocket ==
  Cardinality({s \in SockIds :
                 socks[s].readyState \in {"connecting", "open"}}) <= 1

\* C24: the connection state the hook reports matches the socket wsRef
\* holds: isConnected is true exactly when that socket is open, and
\* connectionStatus is 'connected' exactly then.
C24_StateMatchesSocket ==
  LET open == wsRef # NullRef /\ ReadyState(wsRef, socks) = "open"
  IN /\ isConnected <=> open
     /\ (connectionStatus = "connected") <=> open

\* C25: removeNotification, removeMonitor and removeSummary called with an
\* id that is not in the list leave the slice as it was: the same items and
\* the same pagination.total.
C25_RemoveAbsentNoChange ==
  [][\A slice \in Slices, id \in 1..MaxListed + 1 :
       (RemoveItem(slice, id) /\ id \notin ItemIds(store, slice))
         => /\ store'[slice].items = store[slice].items
            /\ store'[slice].pagination.total = store[slice].pagination.total]_allVars

\* C26: on the Notifications page every selected id is the id of a
\* notification in the list the page shows.
C26_SelectedAreDisplayed ==
  notifPage.selected \subseteq Displayed(notifPage)

\* C30: when the last delete request of a confirmed Delete Selected settles,
\* the page reloads the list and the stats and clears the selection, whether
\* or not a request of the run failed.
C30_ReloadAfterDeletes ==
  [][\A id \in Times, ok \in BOOLEAN :
       (DeleteSettled(id, ok) /\ notifPage.deletes.pending = {id})
         => /\ (notifPage.filter = "unread") \in notifPage'.pending
            /\ notifPage'.statsPending
            /\ notifPage'.selected = {}]_allVars

\* C27: when loadDashboardData has completed, stats.error is null exactly
\* when the summary, monitor and notification stats requests all succeeded.
C27_StatsErrorIffFailed ==
  [][\A r \in Settled, ok \in BOOLEAN :
       DashboardDataSettled(r, ok)
         => ((store'.stats.error = "null")
               <=> (r.summaryStats /\ r.monitorStats /\ r.notificationStats))]_allVars

\* C28: once every loadMonitors call of the Monitors page has completed, the
\* list the page shows is the response of the call that started last,
\* whatever order the responses arrived in.
C28_LatestResponseShown ==
  (monPage.mounted /\ monPage.calls = <<>> /\ monPage.newest.arrived)
    => monPage.monitors = monPage.newest.monitors

\* C29: when the notification-stats request of the Header's refresh fails,
\* the unread badge count becomes the number of notifications in the client
\* store that are not read, and no error leaves the refresh handler.
C29_FallbackToStore ==
  [][\A i \in 1..MaxLoads :
       FetchUnreadCountDone(i, FALSE)
         => /\ ~header'.escaped
            /\ header'.unreadCount =
                 Len(SelectSeq(header.calls[i].value.items,
                               LAMBDA n : ~n.is_read))]_allVars

====
